---- MODULE Spec2Model ----
(***************************************************************************)
(* Model of mealie_menu_creator.py: the configuration loader, the Mealie   *)
(* API client and the menu processor, run against a remote store that      *)
(* persists between runs.                                                   *)
(*                                                                          *)
(* Python strings are sequences of one-character strings, so that lower(), *)
(* strip(), substring containment, the ingredient regex and strftime are   *)
(* computed and not assumed.                                                *)
(***************************************************************************)
EXTENDS Integers, Sequences, FiniteSets, TLC

VARIABLES
    year,            \* process_weekly_menu / calculate_week_dates parameter
    week_number,     \* menu_data.get('week', 1)
    week_dates,      \* result of calculate_week_dates: day -> formatted date
    recipe,          \* the recipe extract_meal_type is applied to
    meal_type,       \* result of extract_meal_type ("" before it ran)
    env_token,       \* os.getenv('MEALIE_API_TOKEN', '')
    argv_file,       \* len(sys.argv) > 1: the menu is read from a file
    input,           \* what the file / stdin holds: [kind, menu]
    config,          \* MealieConfig.api_token once loaded, "None" before
    menu_data,       \* the parsed menu
    pc,              \* position of the program
    exit_code,       \* "running", "0" or "1"
    exc,             \* the exception that ended the run, "" if none
    run_no,          \* which invocation of the program this is
    day_idx,         \* index into DAY_ORDER of the day loop
    rec_idx,         \* index of the recipe loop within the day
    ing_idx,         \* index of the ingredient loop of convert_recipe_to_mealie_format
    created_recipe,  \* result of create_recipe_if_not_exists
    lookup_hit,      \* get_recipe_by_name found a match in the current call
    remote_foods,    \* remote store: /foods
    remote_recipes,  \* remote store: /recipes
    remote_mealplans,\* remote store: /groups/mealplans
    last_req,        \* the latest request of this run, <<method, endpoint>>
    last_entry,      \* what process_weekly_menu did with the latest recipe occurrence
    n_posts,         \* POST /groups/mealplans requests issued in this run
    calls_ok,        \* every HTTP call of this run answered 2xx
    any_unresolved,  \* create_recipe_if_not_exists returned None in this run
    any_no_id,       \* a resolved recipe of this run had neither id nor slug
    listings_ok,     \* every listing call so far returned the stored collection
    faults           \* remote calls so far that failed or answered in an odd shape

pure_vars == <<year, week_number, week_dates, recipe, meal_type>>
main_vars == <<env_token, argv_file, input, config, menu_data, exit_code, exc, run_no>>
loop_vars == <<day_idx, rec_idx, ing_idx, created_recipe, lookup_hit>>
remote_vars == <<remote_foods, remote_recipes, remote_mealplans>>
ghost_vars == <<last_req, last_entry, n_posts, calls_ok, any_unresolved, any_no_id,
               listings_ok, faults>>
vars == <<pure_vars, main_vars, pc, loop_vars, remote_vars, ghost_vars>>

(***************************************************************************)
(* Bounds of the model.                                                    *)
(***************************************************************************)
MinYear == 2019
MaxYear == 2026
MaxWeek == 53
MaxKeywordTokens == 2
MaxDescriptionTokens == 1
MaxOcc == 2
MaxRuns == 2
MaxFaults == 1

(***************************************************************************)
(* Python str helpers.                                                     *)
(***************************************************************************)
Uppers == <<"A","B","C","D","E","F","G","H","I","J","K","L","M",
            "N","O","P","Q","R","S","T","U","V","W","X","Y","Z","É">>
Lowers == <<"a","b","c","d","e","f","g","h","i","j","k","l","m",
            "n","o","p","q","r","s","t","u","v","w","x","y","z","é">>

LowerChar(c) ==
    IF \E i \in 1..Len(Uppers) : Uppers[i] = c
    THEN Lowers[CHOOSE i \in 1..Len(Uppers) : Uppers[i] = c]
    ELSE c

\* str.lower()
Lower(s) == [i \in 1..Len(s) |-> LowerChar(s[i])]

IsSpace(c) == c \in {" ", "\t", "\n"}
IsDigitish(c) == c \in {"0","1","2","3","4","5","6","7","8","9","-","."}
IsAsciiLetter(c) ==
    \E i \in 1..26 : c = Uppers[i] \/ c = Lowers[i]

\* str.strip(): drop leading and trailing whitespace
Strip(s) ==
    LET nonsp == {i \in 1..Len(s) : ~IsSpace(s[i])}
    IN  IF nonsp = {} THEN <<>>
        ELSE LET lo == CHOOSE i \in nonsp : \A j \in nonsp : i <= j
                 hi == CHOOSE i \in nonsp : \A j \in nonsp : j <= i
             IN  SubSeq(s, lo, hi)

\* needle in hay (Python substring containment)
Contains(hay, needle) ==
    \E i \in 0..(Len(hay) - Len(needle)) :
        SubSeq(hay, i + 1, i + Len(needle)) = needle

\* name.lower().strip(), the key of every existence check
NormStripOnly(s) == Strip(s)
Norm(s) == Strip(Lower(s))

(***************************************************************************)
(* datetime arithmetic as calculate_week_dates uses it: proleptic          *)
(* Gregorian ordinals (date.toordinal / date.fromordinal), weekday() and   *)
(* strftime('%Y-%m-%d').                                                    *)
(***************************************************************************)
IsLeap(y) == (y % 4 = 0) /\ ((y % 100 # 0) \/ (y % 400 = 0))

DaysInMonth(y, m) ==
    IF m = 2 THEN (IF IsLeap(y) THEN 29 ELSE 28)
    ELSE IF m \in {4, 6, 9, 11} THEN 30 ELSE 31

RECURSIVE DaysBeforeMonth(_, _)
DaysBeforeMonth(y, m) ==
    IF m = 1 THEN 0 ELSE DaysBeforeMonth(y, m - 1) + DaysInMonth(y, m - 1)

DaysBeforeYear(y) ==
    (y - 1) * 365 + ((y - 1) \div 4) - ((y - 1) \div 100) + ((y - 1) \div 400)

\* datetime(y, m, d).toordinal()
Ymd2Ord(y, m, d) == DaysBeforeYear(y) + DaysBeforeMonth(y, m) + d

\* date.fromordinal(n), by 400/100/4/1-year cycles
Ord2Ymd(n) ==
    LET n0   == n - 1
        n400 == n0 \div 146097
        r400 == n0 % 146097
        n100 == r400 \div 36524
        r100 == r400 % 36524
        n4   == r100 \div 1461
        r4   == r100 % 1461
        n1   == r4 \div 365
        r1   == r4 % 365
        y    == n400 * 400 + 1 + n100 * 100 + n4 * 4 + n1
    IN  IF n1 = 4 \/ n100 = 4
        THEN <<y - 1, 12, 31>>
        ELSE LET m0   == (r1 + 50) \div 32
                 pre0 == DaysBeforeMonth(y, m0)
                 m    == IF pre0 > r1 THEN m0 - 1 ELSE m0
                 pre  == DaysBeforeMonth(y, m)
             IN  <<y, m, r1 - pre + 1>>

\* datetime.weekday(): Monday = 0 ... Sunday = 6
Weekday(ord) == (ord + 6) % 7

Digits == <<"0","1","2","3","4","5","6","7","8","9">>
Digit(n) == Digits[n + 1]

\* date.strftime('%Y-%m-%d')
Strftime(ymd) ==
    LET y == ymd[1]
        m == ymd[2]
        d == ymd[3]
    IN  << Digit((y \div 1000) % 10), Digit((y \div 100) % 10),
           Digit((y \div 10) % 10), Digit(y % 10), "-",
           Digit(m \div 10), Digit(m % 10), "-",
           Digit(d \div 10), Digit(d % 10) >>

DAY_ORDER ==
    <<"monday", "tuesday", "wednesday", "thursday", "friday", "saturday", "sunday">>

\* jan_4 = datetime(year, 1, 4)
Jan1Anchor(y) == Ymd2Ord(y, 1, 1)
Jan4Anchor(y) == Ymd2Ord(y, 1, 4)

\* calculate_week_dates(year, week): day name -> 'YYYY-MM-DD'
calculate_week_dates(y, w) ==
    LET jan_4         == Jan4Anchor(y)
        week_1_monday == jan_4 - Weekday(jan_4)
        target_monday == week_1_monday + 7 * (w - 1)
    IN  [day \in {DAY_ORDER[i] : i \in 1..Len(DAY_ORDER)} |->
            LET idx == CHOOSE i \in 1..Len(DAY_ORDER) : DAY_ORDER[i] = day
            IN  Strftime(Ord2Ymd(target_monday + (idx - 1)))]

NoDates == [day \in {} |-> <<>>]

(***************************************************************************)
(* extract_meal_type.                                                      *)
(***************************************************************************)
K_reggeli   == <<"r","e","g","g","e","l","i">>
K_ebed      == <<"e","b","é","d">>
K_vacsora   == <<"v","a","c","s","o","r","a">>
K_snack     == <<"s","n","a","c","k">>
K_breakfast == <<"b","r","e","a","k","f","a","s","t">>
K_lunch     == <<"l","u","n","c","h">>
K_dinner    == <<"d","i","n","n","e","r">>

\* the keyword table in declared (dict insertion) order
MEAL_TYPE_MAP_Reordered ==
    << <<K_dinner, "dinner">>, <<K_lunch, "lunch">>, <<K_breakfast, "breakfast">>,
       <<K_snack, "snack">>, <<K_vacsora, "dinner">>, <<K_ebed, "lunch">>,
       <<K_reggeli, "breakfast">> >>
MEAL_TYPE_MAP ==
    << <<K_reggeli, "breakfast">>, <<K_ebed, "lunch">>, <<K_vacsora, "dinner">>,
       <<K_snack, "snack">>, <<K_breakfast, "breakfast">>, <<K_lunch, "lunch">>,
       <<K_dinner, "dinner">> >>

\* for hungarian, english in MEAL_TYPE_MAP.items(): if hungarian in text: return english
RECURSIVE ScanTable(_, _)
ScanTable(text, i) ==
    IF i > Len(MEAL_TYPE_MAP) THEN ""
    ELSE IF Contains(text, MEAL_TYPE_MAP[i][1]) THEN MEAL_TYPE_MAP[i][2]
    ELSE ScanTable(text, i + 1)

\* recipe.get('keywords', ''): absent gives ''; a non-string is left unscanned
KeywordsScan(r) ==
    IF r.kwKind = "str" THEN ScanTable(Lower(r.keywords), 1)
    ELSE IF r.kwKind = "absent" THEN ScanTable(<<>>, 1)
    ELSE ""

\* recipe.get('description', '').lower()
DescriptionScan(r) ==
    ScanTable(Lower(IF r.hasDescription THEN r.description ELSE <<>>), 1)

extract_meal_type(r) ==
    IF KeywordsScan(r) # "" THEN KeywordsScan(r)
    ELSE IF DescriptionScan(r) # "" THEN DescriptionScan(r)
    ELSE "dinner"


\* parse_ingredient_text: the regular expression of line 212 matched against the
\* stripped text. A match is <<a, b, c, d>>: s[1..a] is the run of digits, dots
\* and hyphens, s[a+1..b] the optional whitespace, s[b+1..c] the ASCII letters,
\* s[c+1..d] the separating whitespace and the rest the name. Greedy matching
\* with backtracking takes the lexicographically largest match.
RegexMatches(s) ==
    {t \in (1..Len(s)) \X (1..Len(s)) \X (1..Len(s)) \X (1..Len(s)) :
        /\ t[1] <= t[2] /\ t[2] <= t[3] /\ t[3] < t[4] /\ t[4] < Len(s)
        /\ \A i \in 1..t[1] : IsDigitish(s[i])
        /\ \A i \in (t[1] + 1)..t[2] : IsSpace(s[i])
        /\ \A i \in (t[2] + 1)..t[3] : IsAsciiLetter(s[i])
        /\ \A i \in (t[3] + 1)..t[4] : IsSpace(s[i])
        /\ \A i \in (t[4] + 1)..Len(s) : s[i] # "\n"}

LexGE(t, u) ==
    \/ t = u
    \/ \E k \in 1..4 : t[k] > u[k] /\ \A j \in 1..(k - 1) : t[j] = u[j]

parse_ingredient_text(ingredient_text) ==
    LET s == Strip(ingredient_text)
        M == RegexMatches(s)
    IN  IF M # {}
        THEN LET t == CHOOSE t \in M : \A u \in M : LexGE(t, u)
             IN  [quantity |-> Strip(SubSeq(s, 1, t[3])),
                  name |-> Strip(SubSeq(s, t[4] + 1, Len(s))),
                  original_text |-> ingredient_text]
        ELSE [quantity |-> <<>>, name |-> s, original_text |-> ingredient_text]

(***************************************************************************)
(* Inputs: source recipes and menus.                                       *)
(***************************************************************************)
UntitledRecipe ==
    <<"U","n","t","i","t","l","e","d"," ","R","e","c","i","p","e">>

\* recipe.get('name', 'Untitled Recipe')
RecipeName(r) == IF r.hasName THEN r.name ELSE UntitledRecipe

NoRecipe ==
    [hasName |-> FALSE, name |-> <<>>, kwKind |-> "absent", keywords |-> <<>>,
     hasDescription |-> FALSE, description |-> <<>>, recipeIngredient |-> <<>>]

Pool ==
    << [hasName |-> TRUE, name |-> <<"A">>,
        kwKind |-> "str", keywords |-> <<"R","e","g","g","e","l","i">>,
        hasDescription |-> FALSE, description |-> <<>>,
        recipeIngredient |-> << <<"1"," ","g"," ","x">>, <<"X">> >>],
       [hasName |-> FALSE, name |-> <<>>,
        kwKind |-> "list", keywords |-> <<>>,
        hasDescription |-> TRUE, description |-> <<"e","b","é","d">>,
        recipeIngredient |-> <<>>] >>

DayNames == {DAY_ORDER[i] : i \in 1..Len(DAY_ORDER)}
MenuDays == {"monday", "thursday"}
Occurrences == MenuDays \X (1..Len(Pool))
OccSeqs == UNION {[1..n -> Occurrences] : n \in 0..MaxOcc}

RECURSIVE DayRecipes(_, _, _)
DayRecipes(os, d, i) ==
    IF i > Len(os) THEN <<>>
    ELSE IF os[i][1] = d THEN <<Pool[os[i][2]]>> \o DayRecipes(os, d, i + 1)
    ELSE DayRecipes(os, d, i + 1)

\* menus that name week 2, and the menus of at most one recipe without a week
Menus ==
    {[hasWeek |-> TRUE, week |-> 2,
      days |-> [d \in DayNames |-> DayRecipes(os, d, 1)]] : os \in OccSeqs}
    \cup
    {[hasWeek |-> FALSE, week |-> 0,
      days |-> [d \in DayNames |-> DayRecipes(os, d, 1)]] :
        os \in {q \in OccSeqs : Len(q) <= 1}}

NoMenu == [hasWeek |-> FALSE, week |-> 0, days |-> [d \in DayNames |-> <<>>]]

\* number of recipe occurrences of a menu
RECURSIVE CountFrom(_, _)
CountFrom(m, i) ==
    IF i > Len(DAY_ORDER) THEN 0 ELSE Len(m.days[DAY_ORDER[i]]) + CountFrom(m, i + 1)
MenuOccurrences(m) == CountFrom(m, 1)

(***************************************************************************)
(* Python values of the client: a recipe dict or None.                     *)
(***************************************************************************)
None == [some |-> FALSE, name |-> <<>>, id |-> "None", slug |-> "None"]
Dict(n, i, s) == [some |-> TRUE, name |-> n, id |-> i, slug |-> s]

\* truthiness of a str-or-None value
Truthy(v) == v \notin {"None", ""}

IdTable == <<"r1","r2","r3","r4","r5","r6","r7","r8","r9","r10","r11","r12">>
SlugTable == <<"s1","s2","s3","s4","s5","s6","s7","s8","s9","s10","s11","s12">>

DefaultYear == 2025

NoReq == <<"", "">>
NoBody == [date |-> <<>>, entryType |-> "", recipeId |-> "None"]
NoEntry == [day |-> 0, idx |-> 0, resolved |-> None, posted |-> FALSE, body |-> NoBody]

(***************************************************************************)
(* Initial states.                                                         *)
(***************************************************************************)
InitPure ==
    /\ year = DefaultYear
    /\ week_number = 0
    /\ week_dates = NoDates
    /\ recipe = NoRecipe
    /\ meal_type = ""

InitLoop ==
    /\ day_idx = 0
    /\ rec_idx = 0
    /\ ing_idx = 0
    /\ created_recipe = None
    /\ lookup_hit = FALSE

InitRemote ==
    /\ remote_foods = <<>>
    /\ remote_recipes \in
          {<<>>, <<[name |-> <<"a"," ">>, id |-> "", slug |-> "s1", mine |-> FALSE]>>}
    /\ remote_mealplans = <<>>

InitGhost ==
    /\ last_req = NoReq
    /\ last_entry = NoEntry
    /\ n_posts = 0
    /\ calls_ok = TRUE
    /\ any_unresolved = FALSE
    /\ any_no_id = FALSE
    /\ listings_ok = TRUE
    /\ faults = 0

Init ==
    /\ InitPure
    /\ env_token \in {"", "token"}
    /\ argv_file \in BOOLEAN
    /\ input \in {[kind |-> "ok", menu |-> m] : m \in Menus}
              \cup {[kind |-> k, menu |-> NoMenu] : k \in {"malformed", "unreadable"}}
    /\ input.kind = "unreadable" => argv_file
    /\ ~argv_file => MenuOccurrences(input.menu) <= 1
    /\ config = "None"
    /\ menu_data = NoMenu
    /\ pc = "main"
    /\ exit_code = "running"
    /\ exc = ""
    /\ run_no = 1
    /\ InitLoop
    /\ InitRemote
    /\ InitGhost

(***************************************************************************)
(* The requests of the API client.                                         *)
(***************************************************************************)
REQ_get_ingredients   == <<"GET", "/foods">>
REQ_create_ingredient == <<"POST", "/foods">>
REQ_get_recipes       == <<"GET", "/recipes">>
REQ_create_recipe_put == <<"PUT", "/recipes">>
REQ_create_recipe     == <<"POST", "/recipes">>
REQ_create_mealplan   == <<"POST", "/groups/mealplans">>

\* What the remote end can do with one request: answer 2xx with a body of some
\* JSON shape, answer non-2xx (raise_for_status raises HTTPError), or not answer
\* at all (session.request raises ConnectionError / Timeout).
GetRecipesOutcomes ==
    {"items", "noitems", "array", "string", "http_error", "transport_error"}
GetFoodsOutcomes ==
    {"list", "items", "mapping", "strings", "badname", "scalar",
     "http_error", "transport_error"}
WriteOutcomes == {"ok", "http_error", "transport_error"}
PostRecipesOutcomes ==
    {[status |-> "ok", shape |-> "dict", idKind |-> k] : k \in {"id", "none"}}
    \cup {[status |-> "ok", shape |-> sh, idKind |-> "id"] :
            sh \in {"string", "list", "emptylist", "number"}}
    \cup {[status |-> st, shape |-> "none", idKind |-> "none"] :
            st \in {"http_error", "transport_error"}}

HttpOk(o) == o \notin {"http_error", "transport_error"}

\* The nominal answers; every other outcome is a fault of the remote end, of
\* which a behaviour has at most MaxFaults.
Nominal(o) == o \in {"items", "list", "mapping", "strings", "ok"}
NominalRecipe(o) == o.status = "ok" /\ o.shape \in {"dict", "string", "list"}
Inject(is_fault) ==
    /\ is_fault => faults < MaxFaults
    /\ faults' = (IF is_fault THEN faults + 1 ELSE faults)

(***************************************************************************)
(* MealieConfig.from_env and main.                                         *)
(***************************************************************************)
\* if not api_token
TokenNeverMissing(tok) == FALSE
TokenMissing(tok) == tok = ""

\* an exception or sys.exit(1) ends the process with status 1
Terminate(e) ==
    /\ pc' = "exit"
    /\ exit_code' = "1"
    /\ exc' = e

LoadConfig ==
    /\ pc = "main"
    /\ IF TokenMissing(env_token)
       THEN Terminate("ValueError") /\ UNCHANGED config
       ELSE /\ config' = env_token
            /\ pc' = "load_menu"
            /\ UNCHANGED <<exit_code, exc>>
    /\ UNCHANGED <<pure_vars, env_token, argv_file, input, menu_data, run_no,
                   loop_vars, remote_vars, ghost_vars>>

\* with open(json_file) as f: menu_data = json.load(f)   (nothing is caught)
LoadMenuFile ==
    /\ pc = "load_menu"
    /\ argv_file
    /\ CASE input.kind = "unreadable" -> Terminate("OSError") /\ UNCHANGED menu_data
         [] input.kind = "malformed" -> Terminate("JSONDecodeError") /\ UNCHANGED menu_data
         [] OTHER -> /\ menu_data' = input.menu
                     /\ pc' = "process"
                     /\ UNCHANGED <<exit_code, exc>>
    /\ UNCHANGED <<pure_vars, env_token, argv_file, input, config, run_no,
                   loop_vars, remote_vars, ghost_vars>>

\* menu_data = json.load(sys.stdin); JSONDecodeError is caught, then sys.exit(1)
LoadMenuStdin ==
    /\ pc = "load_menu"
    /\ ~argv_file
    /\ IF input.kind = "malformed"
       THEN Terminate("JSONDecodeError") /\ UNCHANGED menu_data
       ELSE /\ menu_data' = input.menu
            /\ pc' = "process"
            /\ UNCHANGED <<exit_code, exc>>
    /\ UNCHANGED <<pure_vars, env_token, argv_file, input, config, run_no,
                   loop_vars, remote_vars, ghost_vars>>

(***************************************************************************)
(* process_weekly_menu: the day loop.                                      *)
(***************************************************************************)
\* recipes = menu_data.get(day, [])
DayRecipesOf(m, i) == m.days[DAY_ORDER[i]]

StartProcess ==
    /\ pc = "process"
    /\ week_number' = (IF menu_data.hasWeek THEN menu_data.week ELSE 1)
    /\ week_dates' = calculate_week_dates(year, week_number')
    /\ day_idx' = 1
    /\ pc' = "day"
    /\ UNCHANGED <<year, recipe, meal_type, main_vars, rec_idx, ing_idx,
                   created_recipe, lookup_hit, remote_vars, ghost_vars>>

\* for day in DAY_ORDER: if not recipes: continue
\* the first day from i on that has recipes, Len(DAY_ORDER) + 1 if none
RECURSIVE NextDayWithRecipes(_, _)
NextDayWithRecipes(m, i) ==
    IF i > Len(DAY_ORDER) THEN i
    ELSE IF DayRecipesOf(m, i) # <<>> THEN i
    ELSE NextDayWithRecipes(m, i + 1)

\* the day loop passes over the days without recipes and enters the next one
EnterDay ==
    /\ pc = "day"
    /\ NextDayWithRecipes(menu_data, day_idx) <= Len(DAY_ORDER)
    /\ day_idx' = NextDayWithRecipes(menu_data, day_idx)
    /\ rec_idx' = 1
    /\ recipe' = DayRecipesOf(menu_data, day_idx')[1]
    /\ pc' = "lookup_recipe"
    /\ UNCHANGED <<year, week_number, week_dates, meal_type, main_vars,
                   ing_idx, created_recipe, lookup_hit, remote_vars, ghost_vars>>

\* no day with recipes is left: the completion banner; main returns
Finish ==
    /\ pc = "day"
    /\ NextDayWithRecipes(menu_data, day_idx) > Len(DAY_ORDER)
    /\ day_idx' = Len(DAY_ORDER) + 1
    /\ pc' = "done"
    /\ exit_code' = "0"
    /\ UNCHANGED <<pure_vars, env_token, argv_file, input, config, menu_data, exc,
                   run_no, rec_idx, ing_idx, created_recipe, lookup_hit, remote_vars,
                   ghost_vars>>

(***************************************************************************)
(* create_recipe_if_not_exists.                                            *)
(***************************************************************************)
\* get_recipe_by_name: first recipe of the listing with the same normalised name
RECURSIVE FindRecipe(_, _, _)
FindRecipe(recipes, name, i) ==
    IF i > Len(recipes) THEN None
    ELSE IF Norm(recipes[i].name) = Norm(name)
         THEN Dict(recipes[i].name, recipes[i].id, recipes[i].slug)
         ELSE FindRecipe(recipes, name, i + 1)

\* if existing_recipe: return existing_recipe; else convert and create
AlwaysConvert(existing) == "convert"
AfterLookup(existing) == IF existing.some THEN "return" ELSE "convert"

\* for ing_text in ingredient_texts
IngredientPc(r, i) ==
    IF i <= Len(r.recipeIngredient) THEN "ensure_ingredient" ELSE "create_recipe"

GetRecipeByName ==
    /\ pc = "lookup_recipe"
    /\ \E o \in GetRecipesOutcomes :
        /\ Inject(~Nominal(o))
        /\ last_req' = REQ_get_recipes
        /\ calls_ok' = (calls_ok /\ HttpOk(o))
        /\ listings_ok' = (listings_ok /\ o = "items")
        /\ CASE o = "transport_error" ->
                  /\ Terminate("ConnectionError")
                  /\ UNCHANGED <<created_recipe, lookup_hit, ing_idx>>
             [] o \in {"array", "string"} ->
                  \* response.json().get: a list or a str has no get
                  /\ Terminate("AttributeError")
                  /\ UNCHANGED <<created_recipe, lookup_hit, ing_idx>>
             [] OTHER ->
                  LET listing  == IF o = "items" THEN remote_recipes ELSE <<>>
                      existing == FindRecipe(listing, RecipeName(recipe), 1)
                  IN  /\ lookup_hit' = existing.some
                      /\ created_recipe' = existing
                      /\ ing_idx' = 1
                      /\ pc' = (IF AfterLookup(existing) = "return" THEN "schedule"
                                ELSE IngredientPc(recipe, 1))
                      /\ UNCHANGED <<exit_code, exc>>
    /\ UNCHANGED <<pure_vars, env_token, argv_file, input, config, menu_data, run_no,
                   day_idx, rec_idx, remote_vars, last_entry, n_posts, any_unresolved,
                   any_no_id>>

\* get_ingredients: the listing normalised to entries; isStr tells whether the
\* entry's name is a string
FoodEntries(o) ==
    LET plain == [i \in 1..Len(remote_foods) |->
                    [name |-> remote_foods[i].name, isStr |-> TRUE]]
    IN  CASE o \in {"list", "items", "mapping", "strings"} -> plain
          [] o = "badname" -> <<[name |-> <<>>, isStr |-> FALSE]>> \o plain
          [] OTHER -> <<>>

\* get_ingredient_by_name: "found", "none", or "raise" (name.lower() on a non-string)
RECURSIVE FindIngredient(_, _, _)
FindIngredient(entries, name, i) ==
    IF i > Len(entries) THEN "none"
    ELSE IF ~entries[i].isStr THEN "raise"
    ELSE IF Norm(entries[i].name) = Norm(name) THEN "found"
    ELSE FindIngredient(entries, name, i + 1)

IngredientName(r, i) == parse_ingredient_text(r.recipeIngredient[i]).name

GetIngredientByName ==
    /\ pc = "ensure_ingredient"
    /\ \E o \in GetFoodsOutcomes :
        /\ Inject(~Nominal(o))
        /\ last_req' = REQ_get_ingredients
        /\ calls_ok' = (calls_ok /\ HttpOk(o))
        /\ listings_ok' = (listings_ok /\ o \in {"list", "items", "mapping", "strings"})
        /\ IF o = "transport_error"
           THEN Terminate("ConnectionError") /\ UNCHANGED ing_idx
           ELSE LET r == FindIngredient(FoodEntries(o), IngredientName(recipe, ing_idx), 1)
                IN  CASE r = "raise" -> Terminate("AttributeError") /\ UNCHANGED ing_idx
                      [] r = "found" ->
                           /\ ing_idx' = ing_idx + 1
                           /\ pc' = IngredientPc(recipe, ing_idx + 1)
                           /\ UNCHANGED <<exit_code, exc>>
                      [] OTHER ->
                           /\ pc' = "create_ingredient"
                           /\ UNCHANGED <<ing_idx, exit_code, exc>>
    /\ UNCHANGED <<pure_vars, env_token, argv_file, input, config, menu_data, run_no,
                   day_idx, rec_idx, created_recipe, lookup_hit, remote_vars,
                   last_entry, n_posts, any_unresolved, any_no_id>>

CreateIngredient ==
    /\ pc = "create_ingredient"
    /\ \E o \in WriteOutcomes :
        /\ Inject(~Nominal(o))
        /\ last_req' = REQ_create_ingredient
        /\ calls_ok' = (calls_ok /\ HttpOk(o))
        /\ remote_foods' =
              (IF o = "ok"
               THEN Append(remote_foods,
                           [name |-> IngredientName(recipe, ing_idx), mine |-> TRUE])
               ELSE remote_foods)
        /\ IF o = "transport_error"
           THEN Terminate("ConnectionError") /\ UNCHANGED ing_idx
           ELSE /\ ing_idx' = ing_idx + 1
                /\ pc' = IngredientPc(recipe, ing_idx + 1)
                /\ UNCHANGED <<exit_code, exc>>
    /\ UNCHANGED <<pure_vars, env_token, argv_file, input, config, menu_data, run_no,
                   day_idx, rec_idx, created_recipe, lookup_hit, remote_recipes,
                   remote_mealplans, last_entry, n_posts, any_unresolved, any_no_id,
                   listings_ok>>

\* the record the remote store keeps for a created recipe
StoredRecipe(name, k) ==
    LET n == Len(remote_recipes) + 1
    IN  [name |-> name,
         id   |-> (IF k = "id" THEN IdTable[n] ELSE IF k = "slug" THEN "" ELSE "None"),
         slug |-> (IF k = "none" THEN "None" ELSE SlugTable[n]),
         mine |-> TRUE]

\* create_recipe: the response normalised to a dict or None
CreatedFrom(o, st) ==
    CASE o.shape \in {"dict", "list"} -> Dict(st.name, st.id, st.slug)
      [] o.shape = "string" ->
            Dict(<<>>, (IF Truthy(st.id) THEN st.id
                        ELSE IF Truthy(st.slug) THEN st.slug ELSE ""), "None")
      [] OTHER -> None

CreateRecipe ==
    /\ pc = "create_recipe"
    /\ \E o \in PostRecipesOutcomes :
        /\ Inject(~NominalRecipe(o))
        /\ last_req' = REQ_create_recipe
        /\ calls_ok' = (calls_ok /\ o.status = "ok")
        /\ CASE o.status = "transport_error" ->
                  /\ Terminate("ConnectionError")
                  /\ UNCHANGED <<created_recipe, remote_recipes>>
             [] o.status = "http_error" ->
                  /\ created_recipe' = None
                  /\ pc' = "schedule"
                  /\ UNCHANGED <<exit_code, exc, remote_recipes>>
             [] OTHER ->
                  LET st == StoredRecipe(RecipeName(recipe), o.idKind)
                  IN  /\ remote_recipes' = Append(remote_recipes, st)
                      /\ created_recipe' = CreatedFrom(o, st)
                      /\ pc' = "schedule"
                      /\ UNCHANGED <<exit_code, exc>>
    /\ UNCHANGED <<pure_vars, env_token, argv_file, input, config, menu_data, run_no,
                   day_idx, rec_idx, ing_idx, lookup_hit, remote_foods,
                   remote_mealplans, last_entry, n_posts, any_unresolved, any_no_id,
                   listings_ok>>

(***************************************************************************)
(* process_weekly_menu: the meal-plan entry of one recipe.                 *)
(***************************************************************************)
\* recipe_id = created_recipe.get('id') or created_recipe.get('slug')
RecipeIdOnly(created) == created.id
RecipeIdOf(created) == IF Truthy(created.id) THEN created.id ELSE created.slug

\* week_dates[day]
MondayDate(dates, i) == dates[DAY_ORDER[1]]
DayDate(dates, i) == dates[DAY_ORDER[i]]

\* whether a dict carries an identifier at all
HasIdOrSlug(c) == Truthy(c.id) \/ Truthy(c.slug)

LogEntry(posted, body) ==
    [day |-> day_idx, idx |-> rec_idx, resolved |-> created_recipe,
     posted |-> posted, body |-> body]

\* for recipe in recipes: the next recipe of the day, or the next day
Advance ==
    IF rec_idx < Len(DayRecipesOf(menu_data, day_idx))
    THEN /\ rec_idx' = rec_idx + 1
         /\ recipe' = DayRecipesOf(menu_data, day_idx)[rec_idx + 1]
         /\ pc' = "lookup_recipe"
         /\ UNCHANGED day_idx
    ELSE /\ day_idx' = day_idx + 1
         /\ pc' = "day"
         /\ UNCHANGED <<rec_idx, recipe>>

\* created_recipe is truthy and has an id or a slug: create_mealplan is called
SchedulePost ==
    /\ pc = "schedule"
    /\ created_recipe.some
    /\ Truthy(RecipeIdOf(created_recipe))
    /\ meal_type' = extract_meal_type(recipe)
    /\ \E o \in WriteOutcomes :
        LET body == [date |-> DayDate(week_dates, day_idx),
                     entryType |-> meal_type',
                     recipeId |-> RecipeIdOf(created_recipe)]
        IN  /\ Inject(~Nominal(o))
            /\ last_req' = REQ_create_mealplan
            /\ calls_ok' = (calls_ok /\ HttpOk(o))
            /\ last_entry' = LogEntry(TRUE, body)
            /\ n_posts' = n_posts + 1
            /\ remote_mealplans' =
                  (IF o = "ok" THEN Append(remote_mealplans, body) ELSE remote_mealplans)
            /\ IF o = "transport_error"
               THEN Terminate("ConnectionError") /\ UNCHANGED <<rec_idx, recipe, day_idx>>
               ELSE Advance /\ UNCHANGED <<exit_code, exc>>
    /\ any_no_id' = (any_no_id \/ ~HasIdOrSlug(created_recipe))
    /\ UNCHANGED <<year, week_number, week_dates, env_token, argv_file, input, config,
                   menu_data, run_no, ing_idx, created_recipe, lookup_hit,
                   remote_foods, remote_recipes, any_unresolved, listings_ok>>

\* created_recipe is truthy but has neither id nor slug: nothing is posted
ScheduleNoId ==
    /\ pc = "schedule"
    /\ created_recipe.some
    /\ ~Truthy(RecipeIdOf(created_recipe))
    /\ meal_type' = extract_meal_type(recipe)
    /\ last_entry' = LogEntry(FALSE, NoBody)
    /\ any_no_id' = (any_no_id \/ ~HasIdOrSlug(created_recipe))
    /\ Advance
    /\ UNCHANGED <<year, week_number, week_dates, main_vars, ing_idx, created_recipe,
                   lookup_hit, remote_vars, last_req, n_posts, calls_ok,
                   any_unresolved, listings_ok, faults>>

\* created_recipe is None: the recipe is passed over
ScheduleUnresolved ==
    /\ pc = "schedule"
    /\ ~created_recipe.some
    /\ last_entry' = LogEntry(FALSE, NoBody)
    /\ any_unresolved' = TRUE
    /\ Advance
    /\ UNCHANGED <<year, week_number, week_dates, meal_type, main_vars, ing_idx,
                   created_recipe, lookup_hit, remote_vars, last_req, n_posts,
                   calls_ok, any_no_id, listings_ok, faults>>

(***************************************************************************)
(* The program is run again with the same environment and menu; the remote *)
(* store keeps what it holds.                                              *)
(***************************************************************************)
Rerun ==
    /\ pc = "done"
    /\ run_no < MaxRuns
    /\ run_no' = run_no + 1
    /\ pc' = "main"
    /\ exit_code' = "running"
    /\ exc' = ""
    /\ config' = "None"
    /\ menu_data' = NoMenu
    /\ year' = DefaultYear
    /\ week_number' = 0
    /\ week_dates' = NoDates
    /\ recipe' = NoRecipe
    /\ meal_type' = ""
    /\ day_idx' = 0
    /\ rec_idx' = 0
    /\ ing_idx' = 0
    /\ created_recipe' = None
    /\ lookup_hit' = FALSE
    /\ last_req' = NoReq
    /\ last_entry' = NoEntry
    /\ n_posts' = 0
    /\ calls_ok' = TRUE
    /\ any_unresolved' = FALSE
    /\ any_no_id' = FALSE
    /\ UNCHANGED <<env_token, argv_file, input, remote_vars, listings_ok, faults>>

Next ==
    \/ LoadConfig
    \/ LoadMenuFile
    \/ LoadMenuStdin
    \/ StartProcess
    \/ EnterDay
    \/ Finish
    \/ GetRecipeByName
    \/ GetIngredientByName
    \/ CreateIngredient
    \/ CreateRecipe
    \/ SchedulePost
    \/ ScheduleNoId
    \/ ScheduleUnresolved
    \/ Rerun

Spec == Init /\ [][Next]_vars

(***************************************************************************)
(* calculate_week_dates and extract_meal_type applied to bounded inputs.   *)
(***************************************************************************)
IdleRun ==
    /\ env_token = "token"
    /\ argv_file = FALSE
    /\ input = [kind |-> "ok", menu |-> NoMenu]
    /\ config = "None"
    /\ menu_data = NoMenu
    /\ pc = "pure"
    /\ exit_code = "running"
    /\ exc = ""
    /\ run_no = 1
    /\ InitLoop
    /\ remote_foods = <<>>
    /\ remote_recipes = <<>>
    /\ remote_mealplans = <<>>
    /\ InitGhost

InitDates ==
    /\ year \in MinYear..MaxYear
    /\ week_number \in 1..MaxWeek
    /\ week_dates = NoDates
    /\ recipe = NoRecipe
    /\ meal_type = ""
    /\ IdleRun

CalcWeekDates ==
    /\ pc = "pure"
    /\ week_dates = NoDates
    /\ week_dates' = calculate_week_dates(year, week_number)
    /\ UNCHANGED <<year, week_number, recipe, meal_type, main_vars, pc, loop_vars,
                   remote_vars, ghost_vars>>

SpecDates == InitDates /\ [][CalcWeekDates]_vars

\* texts made of at most n words of the vocabulary
Vocabulary ==
    { <<"R","e","g","g","e","l","i">>, <<"E","B","É","D">>, K_vacsora, K_snack,
      K_breakfast, K_lunch, <<"D","i","n","n","e","r">>, <<"x"," ">> }

RECURSIVE Texts(_)
Texts(n) ==
    IF n = 0 THEN {<<>>}
    ELSE Texts(n - 1) \cup {t \o w : t \in Texts(n - 1), w \in Vocabulary}

MealRecipes ==
    {[hasName |-> FALSE, name |-> <<>>, kwKind |-> k[1], keywords |-> k[2],
      hasDescription |-> d[1], description |-> d[2], recipeIngredient |-> <<>>] :
        k \in ({"str"} \X Texts(MaxKeywordTokens)) \cup {<<"absent", <<>>>>, <<"list", <<>>>>},
        d \in ({TRUE} \X Texts(MaxDescriptionTokens)) \cup {<<FALSE, <<>>>>}}

InitMeal ==
    /\ year = DefaultYear
    /\ week_number = 0
    /\ week_dates = NoDates
    /\ recipe \in MealRecipes
    /\ meal_type = ""
    /\ IdleRun

ApplyExtractMealType ==
    /\ pc = "pure"
    /\ meal_type = ""
    /\ meal_type' = extract_meal_type(recipe)
    /\ UNCHANGED <<year, week_number, week_dates, recipe, main_vars, pc, loop_vars,
                   remote_vars, ghost_vars>>

SpecMeal == InitMeal /\ [][ApplyExtractMealType]_vars

(***************************************************************************)
(* The calendar, stated without ordinals: month lengths, the day after a   *)
(* date, and the day of the week by Zeller's congruence.                   *)
(***************************************************************************)
CalLeap(y) == IF y % 400 = 0 THEN TRUE ELSE IF y % 100 = 0 THEN FALSE ELSE y % 4 = 0
CalMonthLen(y, m) ==
    IF m = 2 /\ CalLeap(y) THEN 29
    ELSE <<31, 28, 31, 30, 31, 30, 31, 31, 30, 31, 30, 31>>[m]

CalNext(d) ==
    IF d[3] < CalMonthLen(d[1], d[2]) THEN <<d[1], d[2], d[3] + 1>>
    ELSE IF d[2] < 12 THEN <<d[1], d[2] + 1, 1>>
    ELSE <<d[1] + 1, 1, 1>>

\* the date n days after d, month by month
RECURSIVE CalAdd(_, _)
CalAdd(d, n) ==
    IF d[3] + n <= CalMonthLen(d[1], d[2]) THEN <<d[1], d[2], d[3] + n>>
    ELSE CalAdd(CalNext(<<d[1], d[2], CalMonthLen(d[1], d[2])>>),
                n - (CalMonthLen(d[1], d[2]) - d[3] + 1))

\* 0 = Saturday, 1 = Sunday, 2 = Monday, ..., 5 = Thursday, 6 = Friday
Zeller(d) ==
    LET m == IF d[2] < 3 THEN d[2] + 12 ELSE d[2]
        y == IF d[2] < 3 THEN d[1] - 1 ELSE d[1]
        k == y % 100
        j == y \div 100
    IN  (d[3] + ((13 * (m + 1)) \div 5) + k + (k \div 4) + (j \div 4) + 5 * j) % 7

\* the first Thursday of the year, and the Monday three days before it
FirstThursday(y) == CHOOSE d \in 1..7 : Zeller(<<y, 1, d>>) = 5
IsoWeek1Monday(y) ==
    IF FirstThursday(y) >= 4 THEN <<y, 1, FirstThursday(y) - 3>>
    ELSE <<y - 1, 12, 28 + FirstThursday(y)>>

DigitVal(c) == CHOOSE n \in 0..9 : Digits[n + 1] = c
ParseDate(s) ==
    << 1000 * DigitVal(s[1]) + 100 * DigitVal(s[2]) + 10 * DigitVal(s[3]) + DigitVal(s[4]),
       10 * DigitVal(s[6]) + DigitVal(s[7]),
       10 * DigitVal(s[9]) + DigitVal(s[10]) >>

\* C8: calculate_week_dates(year, week) maps monday..sunday to seven consecutive
\* calendar dates in YYYY-MM-DD form, the first of which is a Monday and is the
\* Monday of ISO week `week` of ISO year `year` (week 1 holds the year's first
\* Thursday); year 2025, week 1 starts on 2024-12-30.
C8_WeekDatesAreIsoWeek ==
    week_dates # NoDates =>
        LET mon == ParseDate(week_dates["monday"])
        IN  /\ DOMAIN week_dates = DayNames
            /\ \A i \in 1..Len(DAY_ORDER) :
                  /\ Len(week_dates[DAY_ORDER[i]]) = 10
                  /\ week_dates[DAY_ORDER[i]][5] = "-"
                  /\ week_dates[DAY_ORDER[i]][8] = "-"
                  /\ ParseDate(week_dates[DAY_ORDER[i]]) = CalAdd(mon, i - 1)
            /\ Zeller(mon) = 2
            /\ mon = CalAdd(IsoWeek1Monday(year), 7 * (week_number - 1))
            /\ (year = 2025 /\ week_number = 1) =>
                  week_dates["monday"] = <<"2","0","2","4","-","1","2","-","3","0">>

C8_Witness ==
    /\ pc = "pure"
    /\ year = 2025
    /\ week_number = 1
    /\ week_dates # NoDates
    /\ week_dates["monday"] = <<"2","0","2","4","-","1","2","-","3","0">>
    /\ week_dates["sunday"] = <<"2","0","2","5","-","0","1","-","0","5">>

(***************************************************************************)
(* The keyword table as the documentation declares it.                     *)
(***************************************************************************)
DeclaredKeys ==
    << <<"r","e","g","g","e","l","i">>, <<"e","b","é","d">>,
       <<"v","a","c","s","o","r","a">>, <<"s","n","a","c","k">>,
       <<"b","r","e","a","k","f","a","s","t">>, <<"l","u","n","c","h">>,
       <<"d","i","n","n","e","r">> >>
DeclaredTypes ==
    <<"breakfast", "lunch", "dinner", "snack", "breakfast", "lunch", "dinner">>

KeysIn(text) == {i \in 1..Len(DeclaredKeys) : Contains(Lower(text), DeclaredKeys[i])}
FirstKeyType(text) ==
    DeclaredTypes[CHOOSE i \in KeysIn(text) : \A j \in KeysIn(text) : i <= j]

\* C9: extract_meal_type returns one of breakfast/lunch/dinner/snack; the first
\* declared key that is a substring of the lower-cased keywords decides; only
\* when the keywords hold no key does the first declared key found in the
\* lower-cased description decide; "dinner" when neither holds a key; keywords
\* holding "reggeli" in any letter case give "breakfast".
C9_MealTypePrecedence ==
    (pc = "pure" /\ meal_type # "") =>
        LET kw   == IF recipe.kwKind = "str" THEN recipe.keywords ELSE <<>>
            desc == IF recipe.hasDescription THEN recipe.description ELSE <<>>
        IN  /\ meal_type \in {"breakfast", "lunch", "dinner", "snack"}
            /\ KeysIn(kw) # {} => meal_type = FirstKeyType(kw)
            /\ (KeysIn(kw) = {} /\ KeysIn(desc) # {}) => meal_type = FirstKeyType(desc)
            /\ (KeysIn(kw) = {} /\ KeysIn(desc) = {}) => meal_type = "dinner"
            /\ 1 \in KeysIn(kw) => meal_type = "breakfast"

C9_Witness ==
    /\ pc = "pure"
    /\ meal_type = "breakfast"
    /\ recipe.kwKind = "str"
    /\ recipe.keywords = K_lunch \o <<"R","e","g","g","e","l","i">>
    /\ recipe.hasDescription
    /\ recipe.description = <<"D","i","n","n","e","r">>

(***************************************************************************)
(* Properties of the runs.                                                 *)
(***************************************************************************)
\* names equal when lower-cased and trimmed
SameName(a, b) == Strip(Lower(a)) = Strip(Lower(b))

\* no entity this program created shares its normalised name with another one
NoDuplicateOf(store) ==
    \A i, j \in 1..Len(store) :
        (i # j /\ store[i].mine) => ~SameName(store[i].name, store[j].name)

\* no two entities this program created share their normalised name
NoTwoCreated(store) ==
    \A i, j \in 1..Len(store) :
        (i # j /\ store[i].mine /\ store[j].mine) => ~SameName(store[i].name, store[j].name)

C2_RemoteFailuresContained ==
    ~(pc = "exit" /\ exc = "ConnectionError")

IsPrefix(a, b) == Len(a) <= Len(b) /\ SubSeq(b, 1, Len(a)) = a

AllowedRequests ==
    { <<"GET", "/foods">>, <<"GET", "/recipes">>, <<"POST", "/foods">>,
      <<"POST", "/recipes">>, <<"POST", "/groups/mealplans">> }

\* C3: every request is one of GET /foods, GET /recipes, POST /foods,
\* POST /recipes, POST /groups/mealplans, and every step leaves each ingredient,
\* recipe and meal-plan entry of the remote store in place and unchanged.
C3_ReadAndAppendOnly ==
    /\ [](last_req \in AllowedRequests \cup {NoReq})
    /\ [][/\ IsPrefix(remote_foods, remote_foods')
          /\ IsPrefix(remote_recipes, remote_recipes')
          /\ IsPrefix(remote_mealplans, remote_mealplans')]_vars

\* a recipe and an ingredient were added behind a recipe the store already held
C3_Witness ==
    /\ Len(remote_recipes) >= 2
    /\ ~remote_recipes[1].mine
    /\ remote_recipes[2].mine
    /\ remote_foods # <<>>
    /\ remote_mealplans # <<>>
    /\ last_req = REQ_create_mealplan

\* the recipe of the menu that a log entry is about
EntryRecipe(e) == input.menu.days[DAY_ORDER[e.day]][e.idx]

\* C4: a meal-plan entry is posted for a recipe occurrence exactly when
\* create_recipe_if_not_exists returned a recipe that has an id or a slug; the
\* entry carries the date calculate_week_dates gives for the occurrence's day,
\* the meal type extract_meal_type gives for the recipe, and the recipe's id,
\* or its slug when the id is absent or empty.
C4_SchedulingCorrect ==
    last_entry.day > 0 =>
        LET e == last_entry
            w == IF input.menu.hasWeek THEN input.menu.week ELSE 1
        IN  /\ e.posted <=>
                  (e.resolved.some /\ (Truthy(e.resolved.id) \/ Truthy(e.resolved.slug)))
            /\ e.posted =>
                  /\ e.body.date = calculate_week_dates(DefaultYear, w)[DAY_ORDER[e.day]]
                  /\ e.body.entryType = extract_meal_type(EntryRecipe(e))
                  /\ e.body.recipeId =
                        (IF e.resolved.id \notin {"None", ""} THEN e.resolved.id
                         ELSE e.resolved.slug)
            /\ (last_req = REQ_create_mealplan /\ pc # "exit") => e.posted
            /\ ~e.posted => e.body = NoBody

\* Thursday's recipe, resolved to a stored recipe with an empty id, was posted
\* under its slug
C4_Witness ==
    /\ last_entry.posted
    /\ last_entry.day = 4
    /\ last_entry.resolved.id = ""
    /\ last_entry.body.recipeId = "s1"
    /\ last_entry.body.entryType = "breakfast"
    /\ last_entry.body.date = <<"2","0","2","5","-","0","1","-","0","9">>

\* C5: when get_recipe_by_name finds a recipe of the same normalised name in
\* the listing, create_recipe_if_not_exists returns that recipe and the call
\* issues no GET /foods, POST /foods or POST /recipes; conversion and its
\* ingredient calls happen only when the lookup found nothing.
C5_ExistenceGated ==
    /\ lookup_hit =>
          /\ last_req \notin {REQ_get_ingredients, REQ_create_ingredient, REQ_create_recipe}
          /\ created_recipe.some
          /\ \E i \in 1..Len(remote_recipes) :
                /\ remote_recipes[i].name = created_recipe.name
                /\ remote_recipes[i].id = created_recipe.id
                /\ remote_recipes[i].slug = created_recipe.slug
    /\ (lookup_hit /\ pc = "schedule") =>
          SameName(created_recipe.name, RecipeName(recipe))
    /\ pc \in {"ensure_ingredient", "create_ingredient", "create_recipe"} => ~lookup_hit

\* recipe "A", which has ingredients, was found as the stored recipe "a "
C5_Witness ==
    /\ lookup_hit
    /\ pc = "schedule"
    /\ last_req = REQ_get_recipes
    /\ recipe.recipeIngredient # <<>>
    /\ created_recipe.name # RecipeName(recipe)

BadInput == env_token = "" \/ input.kind # "ok"

\* C6: a run with a missing token or an unreadable or malformed menu issues no
\* HTTP request and ends with exit status 1; a request is issued only once the
\* configuration and the menu have both been loaded.
C6_FatalBeforeNetwork ==
    /\ BadInput => last_req = NoReq
    /\ env_token = "" => pc \in {"main", "exit"}
    /\ input.kind # "ok" => pc \in {"main", "load_menu", "exit"}
    /\ (BadInput /\ pc = "exit") =>
          /\ exit_code = "1"
          /\ exc \in {"ValueError", "JSONDecodeError", "OSError"}
    /\ last_req # NoReq =>
          /\ config = env_token
          /\ config # ""
          /\ input.kind = "ok"
          /\ menu_data = input.menu

\* the menu file was malformed: exit status 1 and no request
C6_Witness ==
    /\ pc = "exit"
    /\ exit_code = "1"
    /\ exc = "JSONDecodeError"
    /\ argv_file
    /\ env_token # ""
    /\ last_req = NoReq

\* C7 as stated: a response of an unexpected JSON shape never raises.
C7_UnexpectedShapesNeverRaise ==
    ~(pc = "exit" /\ exc = "AttributeError")

\* C10 as stated: in a completed run in which every remote call succeeded and
\* every resolved recipe had an id or a slug, one meal-plan entry was posted per
\* recipe occurrence of the menu.
C10_OnePostPerOccurrence ==
    (pc = "done" /\ calls_ok /\ ~any_no_id) => n_posts = MenuOccurrences(menu_data)

\* C10 amended: in a completed run in which every remote call succeeded, every
\* recipe was resolved and every resolved recipe had an id or a slug, one
\* meal-plan entry was posted per recipe occurrence of the menu, in the first
\* run and again in every later run; meal-plan entries are never read.
C10_OnePostPerResolvedOccurrence ==
    /\ (pc = "done" /\ calls_ok /\ ~any_no_id /\ ~any_unresolved) =>
          n_posts = MenuOccurrences(menu_data)
    /\ last_req # <<"GET", "/groups/mealplans">>

\* the second run posted its two entries again: one recipe, listed on two days
C10_Witness ==
    /\ run_no = 2
    /\ pc = "done"
    /\ calls_ok
    /\ faults = 0
    /\ ~any_no_id
    /\ ~any_unresolved
    /\ n_posts = 2
    /\ Len(remote_recipes) = 1
    /\ Len(remote_mealplans) = 4
    /\ remote_mealplans[1].date # remote_mealplans[2].date
    /\ remote_mealplans[3] = remote_mealplans[1]

====
